---- MODULE Spec2Model ----
(***************************************************************************)
(* Model of the parenthesis s-expression reader and writer:                *)
(*   read.rs       Token lexer, check_whitespace, balance_lists,           *)
(*                 ReaderStream (peek / next / span / parent_span)         *)
(*   to_parens.rs  ToParens for Value, ValueOutputStream, to_values        *)
(*   pretty.rs     Pretty output stream, to_string_pretty                  *)
(* Text is a sequence of one-character strings; byte offsets are 0-based   *)
(* and spans are half-open <<start, end>> pairs as in std::ops::Range.     *)
(***************************************************************************)
EXTENDS Integers, Sequences, FiniteSets, TLC

(***************************************************************************)
(* Character classes of the Token regexes (read.rs 11-59).                 *)
(***************************************************************************)
NL == "\n"

Whitespace == {" ", "\t", NL, "\f"}

Digit == {"0", "1", "2", "3", "4", "5", "6", "7", "8", "9"}

Letter ==
    {"a", "b", "c", "d", "e", "f", "g", "h", "i", "j", "k", "l", "m",
     "n", "o", "p", "q", "r", "s", "t", "u", "v", "w", "x", "y", "z",
     "A", "B", "C", "D", "E", "F", "G", "H", "I", "J", "K", "L", "M",
     "N", "O", "P", "Q", "R", "S", "T", "U", "V", "W", "X", "Y", "Z"}

HexDigit ==
    Digit \cup {"a", "b", "c", "d", "e", "f", "A", "B", "C", "D", "E", "F"}

SymbolStart ==
    Letter \cup {"!", "$", "%", "&", "*", "/", ":", "<", "=", ">", "?",
                 "^", "_", "~", ".", "@"}

SymbolCont == SymbolStart \cup Digit \cup {"+", "-"}

Sign == {"+", "-"}

SimpleEscape == {"\"", "\\", "t", "n", "r"}

BarEscape == {"|", "\\", "t", "n", "r"}

(***************************************************************************)
(* Regex matching.  Positions are 1-based indices into the text.  A match  *)
(* operator takes the start position p and returns the position right      *)
(* after the longest match, or 0 when the pattern does not match at p.     *)
(***************************************************************************)
At(t, p) == IF p >= 1 /\ p <= Len(t) THEN t[p] ELSE "EOF"

RECURSIVE RunEnd(_, _, _)
RunEnd(t, p, class) ==
    IF p <= Len(t) /\ t[p] \in class THEN RunEnd(t, p + 1, class) ELSE p

\* [ \t\n\f]+ of #[logos(skip ...)]
SkipWhitespace(t, p) == RunEnd(t, p, Whitespace)

\* A literal #[token("...")].
MatchLiteral(t, p, lit) ==
    IF p + Len(lit) - 1 <= Len(t) /\ SubSeq(t, p, p + Len(lit) - 1) = lit
    THEN p + Len(lit) ELSE 0

\* "([^"\\]|\\["\\tnr]|u\{[a-fA-F0-9]+\})*"   -- q is inside the quotes.
\* The third alternative has no leading backslash, so every text it
\* matches is already matched by the first alternative.
RECURSIVE StringBodyEnd(_, _)
StringBodyEnd(t, q) ==
    IF q > Len(t) THEN 0
    ELSE IF t[q] = "\"" THEN q + 1
    ELSE IF t[q] = "\\"
         THEN IF At(t, q + 1) \in SimpleEscape
              THEN StringBodyEnd(t, q + 2) ELSE 0
    ELSE StringBodyEnd(t, q + 1)

MatchString(t, p) == IF At(t, p) = "\"" THEN StringBodyEnd(t, p + 1) ELSE 0

\* [a-zA-Z!$%&*/:<=>?\^_~\.@][a-zA-Z!$%&*/:<=>?\^_~0-9+\-\.@]*
MatchSymbolPlain(t, p) ==
    IF At(t, p) \in SymbolStart THEN RunEnd(t, p + 1, SymbolCont) ELSE 0

\* [+-]([a-zA-Z!$%&*/:<=>?\^_~\.@][a-zA-Z!$%&*/:<=>?\^_~0-9+\-\.@]*)?
MatchSymbolSigned(t, p) ==
    IF At(t, p) \in Sign
    THEN IF At(t, p + 1) \in SymbolStart
         THEN RunEnd(t, p + 2, SymbolCont) ELSE p + 1
    ELSE 0

\* \|([^\|\\]|\\u\{[a-fA-F0-9]{1,4}\};|\\[\|\\tnr])*\|  -- q is inside the bars.
RECURSIVE BarBodyEnd(_, _)
BarBodyEnd(t, q) ==
    IF q > Len(t) THEN 0
    ELSE IF t[q] = "|" THEN q + 1
    ELSE IF t[q] = "\\"
         THEN IF At(t, q + 1) \in BarEscape THEN BarBodyEnd(t, q + 2)
              ELSE IF At(t, q + 1) = "u" /\ At(t, q + 2) = "{"
                   THEN LET h == RunEnd(t, q + 3, HexDigit)
                            n == h - (q + 3)
                        IN IF n >= 1 /\ n <= 4 /\ At(t, h) = "}"
                              /\ At(t, h + 1) = ";"
                           THEN BarBodyEnd(t, h + 2) ELSE 0
                   ELSE 0
    ELSE BarBodyEnd(t, q + 1)

MatchSymbolBar(t, p) == IF At(t, p) = "|" THEN BarBodyEnd(t, p + 1) ELSE 0

RECURSIVE RunUntil(_, _, _)
RunUntil(t, p, stop) ==
    IF p <= Len(t) /\ t[p] \notin stop THEN RunUntil(t, p + 1, stop) ELSE p

\* ;[^\n]*\n
MatchComment(t, p) ==
    IF At(t, p) = ";"
    THEN LET e == RunUntil(t, p + 1, {NL})
         IN IF At(t, e) = NL THEN e + 1 ELSE 0
    ELSE 0

\* [+-]?[0-9]+
MatchInt(t, p) ==
    LET d == IF At(t, p) \in Sign THEN p + 1 ELSE p
        e == RunEnd(t, d, Digit)
    IN IF e > d THEN e ELSE 0

\* [+-]?[0-9]+\.[0-9]*([eE][+-]?[0-9]+)?
MatchFloat(t, p) ==
    LET i == MatchInt(t, p)
    IN IF i = 0 \/ At(t, i) # "." THEN 0
       ELSE LET f == RunEnd(t, i + 1, Digit)
                x == IF At(t, f) \in {"e", "E"}
                     THEN MatchInt(t, f + 1) ELSE 0
            IN IF x # 0 THEN x ELSE f

(***************************************************************************)
(* Token payloads.  Tokens, token trees and values are <<kind, payload>>   *)
(* pairs; a token of the flat sequence is [token |-> ..., span |-> ...].   *)
(***************************************************************************)
TokenOpenList(skip) == <<"OpenList", skip>>
TokenCloseList == <<"CloseList", 0>>
TokenString(s) == <<"String", s>>
TokenSymbol(s) == <<"Symbol", s>>
TokenComment == <<"Comment", 0>>
TokenBool(b) == <<"Bool", b>>
TokenInt(i) == <<"Int", i>>
TokenFloat(f) == <<"Float", f>>

Kind(x) == x[1]
Payload(x) == x[2]

\* Span of the text positions p .. e-1 as a byte range.
SpanOf(p, e) == <<p - 1, e - 1>>

\* f64 values: NaN, the two infinities, and the finite values
\* (-1)^neg * m * 10^e with m free of trailing zeros (f64 parsing and
\* Display are inverse to each other on short decimals).
FloatNaN == <<"nan", FALSE, 0, 0>>
FloatInf(neg) == <<"inf", neg, 0, 0>>

RECURSIVE FloatFinite(_, _, _)
FloatFinite(neg, m, e) ==
    IF m = 0 THEN <<"finite", neg, 0, 0>>
    ELSE IF m % 10 = 0 THEN FloatFinite(neg, m \div 10, e + 1)
    ELSE <<"finite", neg, m, e>>

DigitChars == <<"0", "1", "2", "3", "4", "5", "6", "7", "8", "9">>

DigitValue(c) == CHOOSE d \in 0..9 : DigitChars[d + 1] = c

\* Value of the decimal digits t[a .. b-1].
RECURSIVE ParseNat(_, _, _)
ParseNat(t, a, b) ==
    IF b <= a THEN 0 ELSE ParseNat(t, a, b - 1) * 10 + DigitValue(t[b - 1])

\* str::parse::<i64> on a slice matching [+-]?[0-9]+ : <<ok, value>>.
\* A slice of up to MaxIntDigits digits is in range; the model keeps
\* integer literals that short, longer ones are reported as out of range.
MaxIntDigits == 9

ParseInt(s) ==
    LET d == IF At(s, 1) \in Sign THEN 2 ELSE 1
        n == ParseNat(s, d, Len(s) + 1)
    IN IF Len(s) + 1 - d > MaxIntDigits THEN <<FALSE, 0>>
       ELSE <<TRUE, IF At(s, 1) = "-" THEN 0 - n ELSE n>>

\* str::parse::<f64> on a slice matching the Float regex.
ParseFloat(s) ==
    LET d == IF At(s, 1) \in Sign THEN 2 ELSE 1
        dot == RunEnd(s, d, Digit)
        f == RunEnd(s, dot + 1, Digit)
        x == IF f <= Len(s)
             THEN ParseInt(SubSeq(s, f + 1, Len(s)))[2] ELSE 0
        m == ParseNat(s, d, dot) * 10 ^ (f - dot - 1) + ParseNat(s, dot + 1, f)
        e == x - (f - dot - 1)
    IN FloatFinite(At(s, 1) = "-", m, e)

(***************************************************************************)
(* escape::unescape, an external collaborator: decodes the escapes of a    *)
(* string or |symbol| body; <<ok, text>>.                                  *)
(***************************************************************************)
CodePoint(hex) ==
    IF hex = <<"4", "1">> THEN "A"
    ELSE IF hex = <<"6", "1">> THEN "a"
    ELSE "U+"

RECURSIVE unescape(_)
unescape(s) ==
    IF s = <<>> THEN <<TRUE, <<>>>>
    ELSE IF s[1] # "\\"
         THEN LET r == unescape(Tail(s)) IN <<r[1], <<s[1]>> \o r[2]>>
    ELSE LET c == At(s, 2)
             h == RunEnd(s, 4, HexDigit)
         IN IF c \in {"\\", "\"", "|"}
            THEN LET r == unescape(SubSeq(s, 3, Len(s)))
                 IN <<r[1], <<c>> \o r[2]>>
            ELSE IF c \in {"t", "n", "r"}
            THEN LET r == unescape(SubSeq(s, 3, Len(s)))
                     d == IF c = "t" THEN "\t" ELSE IF c = "n" THEN NL ELSE "\r"
                 IN <<r[1], <<d>> \o r[2]>>
            ELSE IF c = "u" /\ At(s, 3) = "{" /\ h > 4 /\ At(s, h) = "}"
            THEN LET r == unescape(SubSeq(s, h + 1, Len(s)))
                 IN <<r[1], <<CodePoint(SubSeq(s, 4, h - 1))>> \o r[2]>>
            ELSE <<FALSE, <<>>>>

(***************************************************************************)
(* Token::lexer(str).spanned() followed by the comment filter and the      *)
(* error mapping of from_str (read.rs 85-92).                              *)
(***************************************************************************)
\* The patterns that match at p, as <<end, rule>>, and the winner: the
\* longest match, the earlier entry on equal length.
Candidates(t, p) ==
    << <<MatchLiteral(t, p, <<"(">>), "OpenList">>,
       <<MatchLiteral(t, p, <<")">>), "CloseList">>,
       <<MatchString(t, p), "String">>,
       <<MatchFloat(t, p), "Float">>,
       <<MatchLiteral(t, p, <<"#", "+", "i", "n", "f">>), "PosInf">>,
       <<MatchLiteral(t, p, <<"#", "-", "i", "n", "f">>), "NegInf">>,
       <<MatchLiteral(t, p, <<"#", "n", "a", "n">>), "NaN">>,
       <<MatchLiteral(t, p, <<"#", "t">>), "True">>,
       <<MatchLiteral(t, p, <<"#", "f">>), "False">>,
       <<MatchSymbolPlain(t, p), "SymbolPlain">>,
       <<MatchSymbolSigned(t, p), "SymbolSigned">>,
       <<MatchSymbolBar(t, p), "SymbolBar">>,
       <<MatchComment(t, p), "Comment">>,
       <<MatchInt(t, p), "Int">> >>

Best(c) ==
    c[CHOOSE k \in 1..Len(c) :
          /\ \A j \in 1..Len(c) : c[j][1] <= c[k][1]
          /\ \A j \in 1..(k - 1) : c[j][1] < c[k][1]]

LongestMatch(t, p) == Best(Candidates(t, p))

\* The token the callback of the winning rule produces: <<ok, token>>.
Callback(rule, slice) ==
    CASE rule = "OpenList" -> <<TRUE, TokenOpenList(0)>>
      [] rule = "CloseList" -> <<TRUE, TokenCloseList>>
      [] rule \in {"String", "SymbolBar"} ->
            LET u == unescape(SubSeq(slice, 2, Len(slice) - 1))
            IN <<u[1], IF rule = "String" THEN TokenString(u[2])
                                          ELSE TokenSymbol(u[2])>>
      [] rule \in {"SymbolPlain", "SymbolSigned"} -> <<TRUE, TokenSymbol(slice)>>
      [] rule = "Comment" -> <<TRUE, TokenComment>>
      [] rule = "True" -> <<TRUE, TokenBool(TRUE)>>
      [] rule = "False" -> <<TRUE, TokenBool(FALSE)>>
      [] rule = "Int" -> LET i == ParseInt(slice) IN <<i[1], TokenInt(i[2])>>
      [] rule = "Float" -> <<TRUE, TokenFloat(ParseFloat(slice))>>
      [] rule = "PosInf" -> <<TRUE, TokenFloat(FloatInf(FALSE))>>
      [] rule = "NegInf" -> <<TRUE, TokenFloat(FloatInf(TRUE))>>
      [] rule = "NaN" -> <<TRUE, TokenFloat(FloatNaN)>>

ErrSyntax(span) == <<"Syntax", span>>
ErrEndOfFile == <<"EndOfFile">>
ErrUnexpectedClose(span) == <<"UnexpectedClose", span>>
ErrExpectedWhitespace(after, before) == <<"ExpectedWhitespace", after, before>>
ErrParse(what) == <<"Parse", what>>
NoError == <<"None">>

\* Result of the lexing stage: the comment-free token sequence, or the
\* first Syntax error.  LexFrom skips whitespace, LexAt ends at the end of
\* the text, LexMatch takes the longest match m at p, LexEmit the token cb
\* its callback made of the slice p .. e-1.
RECURSIVE LexFrom(_, _, _)

LexEmit(t, p, e, acc, cb) ==
    IF ~cb[1] THEN [err |-> ErrSyntax(SpanOf(p, e)), tokens |-> <<>>]
    ELSE IF Kind(cb[2]) = "Comment" THEN LexFrom(t, e, acc)
    ELSE LexFrom(t, e, Append(acc, [token |-> cb[2], span |-> SpanOf(p, e)]))

LexMatch(t, p, acc, m) ==
    IF m[1] = 0 THEN [err |-> ErrSyntax(SpanOf(p, p + 1)), tokens |-> <<>>]
    ELSE LexEmit(t, p, m[1], acc, Callback(m[2], SubSeq(t, p, m[1] - 1)))

LexAt(t, p, acc) ==
    IF p > Len(t) THEN [err |-> NoError, tokens |-> acc]
    ELSE LexMatch(t, p, acc, LongestMatch(t, p))

LexFrom(t, p0, acc) == LexAt(t, SkipWhitespace(t, p0), acc)

Lex(t) == LexFrom(t, 1, <<>>)

(***************************************************************************)
(* check_whitespace (read.rs 106-132).                                     *)
(***************************************************************************)
\* The window (a, b) of two consecutive tokens reaches the final `if` and
\* fails it.
\* Variant: a delimiter on either side exempts the pair.
WindowRejected_EitherDelimiter(a, b) ==
    /\ Kind(a.token) \notin {"OpenList", "CloseList", "Comment"}
    /\ Kind(b.token) \notin {"OpenList", "CloseList", "Comment"}
    /\ a.span[2] = b.span[1]

\* Variant: the second match (on token_b) is missing.
WindowRejected_NoCloseExempt(a, b) ==
    /\ Kind(a.token) \notin {"OpenList", "Comment"}
    /\ a.span[2] = b.span[1]

WindowRejected(a, b) ==
    /\ Kind(a.token) \notin {"OpenList", "Comment"}
    /\ Kind(b.token) \notin {"CloseList", "Comment"}
    /\ a.span[2] = b.span[1]

check_whitespace(toks) ==
    LET bad == {w \in 1..(Len(toks) - 1) : WindowRejected(toks[w], toks[w + 1])}
    IN IF bad = {} THEN NoError
       ELSE LET w == CHOOSE x \in bad : \A y \in bad : x <= y
            IN ErrExpectedWhitespace(toks[w].span, toks[w + 1].span)

(***************************************************************************)
(* balance_lists (read.rs 136-161).  The loop state is the index i of the  *)
(* next token (1-based), the stack of the indices of the unclosed `(`s     *)
(* and the token sequence being patched.                                   *)
(***************************************************************************)
BalanceStart(toks) == [i |-> 1, stack |-> <<>>, tokens |-> toks, err |-> NoError]

\* Variant: the skip counts the tokens inside the list only.
BalanceIter_InnerCount(b) ==
    LET tok == b.tokens[b.i]
    IN CASE Kind(tok.token) = "OpenList" ->
              [b EXCEPT !.stack = Append(@, b.i), !.i = @ + 1]
         [] Kind(tok.token) = "CloseList" ->
              IF b.stack = <<>>
              THEN [b EXCEPT !.err = ErrUnexpectedClose(tok.span)]
              ELSE LET j == b.stack[Len(b.stack)]
                   IN [b EXCEPT !.stack = SubSeq(@, 1, Len(@) - 1),
                                !.tokens[j].token = TokenOpenList(b.i - j - 1),
                                !.i = @ + 1]
         [] OTHER -> [b EXCEPT !.i = @ + 1]

\* One iteration of `for i in 0..tokens.len()`.
BalanceIter(b) ==
    LET tok == b.tokens[b.i]
    IN CASE Kind(tok.token) = "OpenList" ->
              [b EXCEPT !.stack = Append(@, b.i), !.i = @ + 1]
         [] Kind(tok.token) = "CloseList" ->
              IF b.stack = <<>>
              THEN [b EXCEPT !.err = ErrUnexpectedClose(tok.span)]
              ELSE LET j == b.stack[Len(b.stack)]
                   IN [b EXCEPT !.stack = SubSeq(@, 1, Len(@) - 1),
                                !.tokens[j].token = TokenOpenList(b.i - j),
                                !.i = @ + 1]
         [] OTHER -> [b EXCEPT !.i = @ + 1]

\* Variant: no check after the loop.
BalanceEnd_Unchecked(b) == NoError

\* The check after the loop.
BalanceEnd(b) == IF b.stack # <<>> THEN ErrEndOfFile ELSE NoError

RECURSIVE BalanceRun(_)
BalanceRun(b) ==
    IF b.err # NoError THEN b
    ELSE IF b.i > Len(b.tokens) THEN [b EXCEPT !.err = BalanceEnd(b)]
    ELSE BalanceRun(BalanceIter(b))

balance_lists(toks) == BalanceRun(BalanceStart(toks))

(***************************************************************************)
(* ReaderStream (read.rs 163-219).  A view borrows the slice               *)
(* toks[lo .. hi] of the flat token sequence (empty when hi < lo).         *)
(***************************************************************************)
ReaderStream(lo, hi, cur, parent) ==
    [lo |-> lo, hi |-> hi, cur_span |-> cur, parent_span |-> parent]

ViewLen(self) == self.hi - self.lo + 1

TokenTreeNone == <<"None", 0>>
TokenTreePanic == <<"Panic", 0>>
TokenTreeList(inner) == <<"List", inner>>

\* The root view from_str hands to T::from_parens (read.rs 97-101).
RootStream(toks, len) == ReaderStream(1, Len(toks), <<0, 0>>, <<0, len>>)

\* Variant: the child view of a list takes the closer in.
peek_ChildWithCloser(toks, self) ==
    IF ViewLen(self) <= 0 THEN TokenTreeNone
    ELSE LET token == toks[self.lo].token
             span == toks[self.lo].span
             skip == Payload(token)
         IN CASE Kind(token) = "OpenList" ->
                   IF skip < 1 \/ skip >= ViewLen(self) THEN TokenTreePanic
                   ELSE TokenTreeList(
                          ReaderStream(self.lo + 1, self.lo + skip,
                                       <<span[2], span[2]>>,
                                       <<span[2], toks[self.lo + skip].span[2]>>))
              [] Kind(token) = "CloseList" -> TokenTreeNone
              [] Kind(token) = "Comment" -> TokenTreePanic
              [] OTHER -> token

\* Variant: the child view of a list stops one token before its last.
peek_ChildShortByOne(toks, self) ==
    IF ViewLen(self) <= 0 THEN TokenTreeNone
    ELSE LET token == toks[self.lo].token
             span == toks[self.lo].span
             skip == Payload(token)
         IN CASE Kind(token) = "OpenList" ->
                   IF skip < 1 \/ skip >= ViewLen(self) THEN TokenTreePanic
                   ELSE TokenTreeList(
                          ReaderStream(self.lo + 1, self.lo + skip - 2,
                                       <<span[2], span[2]>>,
                                       <<span[2], toks[self.lo + skip].span[2]>>))
              [] Kind(token) = "CloseList" -> TokenTreeNone
              [] Kind(token) = "Comment" -> TokenTreePanic
              [] OTHER -> token

peek(toks, self) ==
    IF ViewLen(self) <= 0 THEN TokenTreeNone
    ELSE LET token == toks[self.lo].token
             span == toks[self.lo].span
             skip == Payload(token)
         IN CASE Kind(token) = "OpenList" ->
                   \* &self.tokens[1..*skip] and self.tokens[*skip]
                   IF skip < 1 \/ skip >= ViewLen(self) THEN TokenTreePanic
                   ELSE TokenTreeList(
                          ReaderStream(self.lo + 1, self.lo + skip - 1,
                                       <<span[2], span[2]>>,
                                       <<span[2], toks[self.lo + skip].span[2]>>))
              [] Kind(token) = "CloseList" -> TokenTreeNone
              [] Kind(token) = "Comment" -> TokenTreePanic
              [] OTHER -> token

\* <<returned token tree, view after the call>>
\* Variant: a list advances the view by the inner length plus one.
Advance_ShortByOne(toks, self, tree) ==
    CASE Kind(tree) \in {"None", "Panic"} -> <<tree, self>>
      [] Kind(tree) = "List" ->
           <<tree, [self EXCEPT !.cur_span = Payload(tree).parent_span,
                                !.lo = @ + ViewLen(Payload(tree)) + 1]>>
      [] OTHER ->
           <<tree, [self EXCEPT !.cur_span = toks[self.lo].span,
                                !.lo = @ + 1]>>

Advance(toks, self, tree) ==
    CASE Kind(tree) \in {"None", "Panic"} -> <<tree, self>>
      [] Kind(tree) = "List" ->
           <<tree, [self EXCEPT !.cur_span = Payload(tree).parent_span,
                                !.lo = @ + ViewLen(Payload(tree)) + 2]>>
      [] OTHER ->
           <<tree, [self EXCEPT !.cur_span = toks[self.lo].span,
                                !.lo = @ + 1]>>

next(toks, self) == Advance(toks, self, peek(toks, self))

span(self) == self.cur_span
parent_span(self) == self.parent_span
is_end(self) == ViewLen(self) <= 0

(***************************************************************************)
(* Value (the universal tree) and FromParens for Value and Vec<Value>,     *)
(* which live outside the reader: a Value is read from the next token      *)
(* tree, a Vec<Value> from all the token trees left in the view.           *)
(***************************************************************************)
ValueList(items) == <<"List", items>>
ValueString(s) == <<"String", s>>
ValueSymbol(s) == <<"Symbol", s>>
ValueBool(b) == <<"Bool", b>>
ValueInt(n) == <<"Int", n>>
ValueFloat(f) == <<"Float", f>>

Nothing == <<"Nothing", 0>>
Ok(v) == [err |-> NoError, value |-> v]
Fail(e) == [err |-> e, value |-> Nothing]

RECURSIVE VecValue_from_parens(_, _, _)

\* The Value of a token tree the stream returned.
TreeToValue(toks, tree) ==
    IF Kind(tree) = "List"
    THEN ValueList(VecValue_from_parens(toks, Payload(tree), <<>>))
    ELSE tree

VecValue_collect(toks, r, acc) ==
    IF Kind(r[1]) \in {"None", "Panic"} THEN acc
    ELSE VecValue_from_parens(toks, r[2], Append(acc, TreeToValue(toks, r[1])))

VecValue_from_parens(toks, self, acc) ==
    VecValue_collect(toks, next(toks, self), acc)

Value_read(toks, r) ==
    IF Kind(r[1]) \in {"None", "Panic"} THEN Fail(ErrParse("expected value"))
    ELSE Ok(TreeToValue(toks, r[1]))

Value_from_parens(toks, self) == Value_read(toks, next(toks, self))

(***************************************************************************)
(* The Binder: what the derived FromParens of a record does with a run of  *)
(* sibling forms.  A type is <<"Value">>, <<"VecValue">>, <<"String">>,    *)
(* <<"Symbol">> or <<"Record", schema>>; a schema is a sequence of slots   *)
(* <<kind, name, type>>.                                                   *)
(***************************************************************************)
TValue == <<"Value">>
TVecValue == <<"VecValue">>
TString == <<"String">>
TSymbol == <<"Symbol">>
TRecord(schema) == <<"Record", schema>>

positional(type) == <<"positional", <<>>, type>>
required(name, type) == <<"required", name, type>>
optional(name, type) == <<"optional", name, type>>
repeated(name, type) == <<"repeated", name, type>>

\* The head of a list token tree, None for an atom or an empty list.
HeadOf(toks, tree) ==
    IF Kind(tree) = "List" THEN peek(toks, Payload(tree)) ELSE TokenTreeNone

\* The tagged slot a form with this head belongs to, 0 when there is none.
TaggedSlot(schema, head) ==
    LET ks == {k \in 1..Len(schema) :
                  schema[k][1] # "positional" /\ head = TokenSymbol(schema[k][2])}
    IN IF ks = {} THEN 0 ELSE CHOOSE k \in ks : TRUE

\* The next unconsumed positional slot, 0 when there is none.
NextPositional(schema, pos) ==
    LET ks == {k \in pos..Len(schema) : schema[k][1] = "positional"}
    IN IF ks = {} THEN 0 ELSE CHOOSE k \in ks : \A j \in ks : k <= j

\* The final check of one slot against its occurrences: "" when satisfied.
SlotError(slot, occ) ==
    CASE slot[1] \in {"required", "positional"} /\ Len(occ) = 0 -> "missing field"
      [] slot[1] \in {"required", "optional"} /\ Len(occ) >= 2 -> "duplicate field"
      [] OTHER -> ""

SlotValue(slot, occ) ==
    CASE slot[1] = "optional" ->
            IF occ = <<>> THEN <<"None", 0>> ELSE <<"Some", occ[1]>>
      [] slot[1] = "repeated" -> <<"Vec", occ>>
      [] OTHER -> occ[1]

BindFinish(schema, vals) ==
    LET bad == {k \in 1..Len(schema) : SlotError(schema[k], vals[k]) # ""}
    IN IF bad = {}
       THEN Ok(<<"Record", [k \in 1..Len(schema) |-> SlotValue(schema[k], vals[k])]>>)
       ELSE Fail(ErrParse(SlotError(schema[CHOOSE k \in bad : \A j \in bad : k <= j],
                                    vals[CHOOSE k \in bad : \A j \in bad : k <= j])))

RECURSIVE Bind(_, _, _, _, _)

\* A scalar of the given type filling the rest of a view.
ScalarRead(type, toks, r) ==
    IF Kind(r[1]) = type[1] /\ Kind(peek(toks, r[2])) = "None"
    THEN Ok(r[1]) ELSE Fail(ErrParse("type mismatch"))

\* The inner shape of a tagged form, read from the view after its head.
TailFromParens(type, toks, self) ==
    IF type[1] = "Record"
    THEN Bind(type[2], toks, self, [k \in 1..Len(type[2]) |-> <<>>], 1)
    ELSE ScalarRead(type, toks, next(toks, self))

\* A form taken by a positional slot.
PositionalRead(type, toks, tree) ==
    IF type[1] = "Value" THEN Ok(TreeToValue(toks, tree))
    ELSE IF Kind(tree) = type[1] THEN Ok(tree)
    ELSE Fail(ErrParse("type mismatch"))

BindRecord(schema, toks, self, vals, pos, k, v) ==
    IF v.err # NoError THEN Fail(v.err)
    ELSE Bind(schema, toks, self, [vals EXCEPT ![k] = Append(@, v.value)], pos)

BindPositional(schema, toks, r, vals, k) ==
    IF k = 0 THEN Fail(ErrParse("unexpected form"))
    ELSE BindRecord(schema, toks, r[2], vals, k + 1, k,
                    PositionalRead(schema[k][3], toks, r[1]))

BindTree(schema, toks, r, vals, pos, k) ==
    IF k # 0
    THEN BindRecord(schema, toks, r[2], vals, pos, k,
                    TailFromParens(schema[k][3], toks,
                                   next(toks, Payload(r[1]))[2]))
    ELSE BindPositional(schema, toks, r, vals, NextPositional(schema, pos))

BindStep(schema, toks, r, vals, pos) ==
    IF Kind(r[1]) \in {"None", "Panic"} THEN BindFinish(schema, vals)
    ELSE BindTree(schema, toks, r, vals, pos, TaggedSlot(schema, HeadOf(toks, r[1])))

Bind(schema, toks, self, vals, pos) ==
    BindStep(schema, toks, next(toks, self), vals, pos)

(***************************************************************************)
(* from_str::<T> as a whole (read.rs 81-104).                              *)
(***************************************************************************)
from_parens(type, toks, self) ==
    CASE type[1] = "Value" -> Value_from_parens(toks, self)
      [] type[1] = "VecValue" -> Ok(VecValue_from_parens(toks, self, <<>>))
      [] type[1] = "Record" ->
            Bind(type[2], toks, self, [k \in 1..Len(type[2]) |-> <<>>], 1)

FromStrBalanced(type, len, b) ==
    IF b.err # NoError THEN Fail(b.err)
    ELSE from_parens(type, b.tokens, RootStream(b.tokens, len))

FromStrChecked(type, len, toks, ws) ==
    IF ws # NoError THEN Fail(ws)
    ELSE FromStrBalanced(type, len, balance_lists(toks))

FromStrLexed(type, len, lexed) ==
    IF lexed.err # NoError THEN Fail(lexed.err)
    ELSE FromStrChecked(type, len, lexed.tokens, check_whitespace(lexed.tokens))

from_str(type, text) == FromStrLexed(type, Len(text), Lex(text))

(***************************************************************************)
(* Output streams (to_parens.rs 176-232, pretty.rs 34-115).  A stream is   *)
(* [stack |-> saved buffers, current |-> buffer being written].            *)
(***************************************************************************)
NewStream == [stack |-> <<>>, current |-> <<>>]

\* First half of list(f): self.stack.push(std::mem::take(&mut self.current))
list_enter(self) == [stack |-> Append(self.stack, self.current), current |-> <<>>]

\* Value::from for &str, Symbol, bool, i64 and f64.
ValueFrom(kind, x) == <<kind, x>>

\* Variant: the enclosing buffer is not taken back from the stack.
ValueOutputStream_list_exit_NoRestore(self) ==
    [stack |-> SubSeq(self.stack, 1, Len(self.stack) - 1),
     current |-> <<ValueList(self.current)>>]

\* Second half of ValueOutputStream::list, after f returned.
ValueOutputStream_list_exit(self) ==
    [stack |-> SubSeq(self.stack, 1, Len(self.stack) - 1),
     current |-> Append(self.stack[Len(self.stack)], ValueList(self.current))]

ValueOutputStream_string(self, string) ==
    [self EXCEPT !.current = Append(@, ValueFrom("String", string))]
ValueOutputStream_symbol(self, symbol) ==
    [self EXCEPT !.current = Append(@, ValueFrom("Symbol", symbol))]
ValueOutputStream_bool(self, bool) ==
    [self EXCEPT !.current = Append(@, ValueFrom("Bool", bool))]
ValueOutputStream_int(self, int) ==
    [self EXCEPT !.current = Append(@, ValueFrom("Int", int))]
ValueOutputStream_float(self, float) ==
    [self EXCEPT !.current = Append(@, ValueFrom("Float", float))]

\* escape::escape_string and escape::escape_symbol, external collaborators:
\* the inverse of unescape on the body of a string, and a symbol written
\* bare when the bare-symbol regexes accept all of it, between bars
\* otherwise.
EscapeChar(c, quote) ==
    IF c = "\\" THEN <<"\\", "\\">>
    ELSE IF c = quote THEN <<"\\", quote>>
    ELSE IF c = "\t" THEN <<"\\", "t">>
    ELSE IF c = NL THEN <<"\\", "n">>
    ELSE IF c = "\r" THEN <<"\\", "r">>
    ELSE <<c>>

RECURSIVE EscapeBody(_, _)
EscapeBody(s, quote) ==
    IF s = <<>> THEN <<>>
    ELSE EscapeChar(s[1], quote) \o EscapeBody(Tail(s), quote)

escape_string(s) == EscapeBody(s, "\"")

IsBareSymbol(s) ==
    /\ s # <<>>
    /\ \/ MatchSymbolPlain(s, 1) = Len(s) + 1
       \/ MatchSymbolSigned(s, 1) = Len(s) + 1

escape_symbol(s) ==
    IF IsBareSymbol(s) THEN s ELSE <<"|">> \o EscapeBody(s, "|") \o <<"|">>

\* Decimal digits of a natural number.
RECURSIVE Digits(_)
Digits(n) ==
    IF n < 10 THEN <<DigitChars[n + 1]>>
    ELSE Digits(n \div 10) \o <<DigitChars[(n % 10) + 1]>>

Repeat(c, n) == [k \in 1..n |-> c]

\* i64::to_string
IntToString(n) == IF n < 0 THEN <<"-">> \o Digits(0 - n) ELSE Digits(n)

\* Display of a finite f64 (never in exponent notation).
PlaceDigits(ds, e) ==
    IF e >= 0 THEN ds \o Repeat("0", e)
    ELSE IF Len(ds) > 0 - e
         THEN SubSeq(ds, 1, Len(ds) + e) \o <<".">> \o SubSeq(ds, Len(ds) + e + 1, Len(ds))
    ELSE <<"0", ".">> \o Repeat("0", (0 - e) - Len(ds)) \o ds

FloatToString(f) == (IF f[2] THEN <<"-">> ELSE <<>>) \o PlaceDigits(Digits(f[3]), f[4])

\* float == float.ceil() on a finite float
IsIntegral(f) == f[4] >= 0

\* Documents of the Pretty stream: a text, or the document Pretty::list
\* builds of the documents of a list.
DocText(chars) == <<"text", chars>>
DocList(docs) == <<"list", docs>>

\* Variant: the saved buffer is read but left on the stack.
Pretty_list_exit_KeepSaved(self) ==
    [stack |-> self.stack,
     current |-> Append(self.stack[Len(self.stack)], DocList(self.current))]

\* Second half of Pretty::list, after f returned.
Pretty_list_exit(self) ==
    [stack |-> SubSeq(self.stack, 1, Len(self.stack) - 1),
     current |-> Append(self.stack[Len(self.stack)], DocList(self.current))]

Pretty_string(self, string) ==
    [self EXCEPT !.current =
        Append(@, DocText(<<"\"">> \o escape_string(string) \o <<"\"">>))]
Pretty_symbol(self, symbol) ==
    [self EXCEPT !.current = Append(@, DocText(escape_symbol(symbol)))]
Pretty_bool(self, bool) ==
    [self EXCEPT !.current =
        Append(@, DocText(IF bool THEN <<"#", "t">> ELSE <<"#", "f">>))]
Pretty_int(self, int) ==
    [self EXCEPT !.current = Append(@, DocText(IntToString(int)))]

\* The text Pretty::float writes.
\* Variant: the infinities are written +inf.0 and -inf.0.
FloatText_SignedWord(float) ==
    IF float[1] = "nan" THEN <<"#", "n", "a", "n">>
    ELSE IF float = FloatInf(FALSE) THEN <<"+", "i", "n", "f", ".", "0">>
    ELSE IF float = FloatInf(TRUE) THEN <<"-", "i", "n", "f", ".", "0">>
    ELSE IF IsIntegral(float) THEN FloatToString(float) \o <<".", "0">>
    ELSE FloatToString(float)

\* Variant: an integral float is written without the trailing ".0".
FloatText_NoPointZero(float) ==
    IF float[1] = "nan" THEN <<"#", "n", "a", "n">>
    ELSE IF float = FloatInf(FALSE) THEN <<"#", "+", "i", "n", "f">>
    ELSE IF float = FloatInf(TRUE) THEN <<"#", "-", "i", "n", "f">>
    ELSE FloatToString(float)

FloatText(float) ==
    IF float[1] = "nan" THEN <<"#", "n", "a", "n">>
    ELSE IF float = FloatInf(FALSE) THEN <<"#", "+", "i", "n", "f">>
    ELSE IF float = FloatInf(TRUE) THEN <<"#", "-", "i", "n", "f">>
    ELSE IF IsIntegral(float) THEN FloatToString(float) \o <<".", "0">>
    ELSE FloatToString(float)

Pretty_float(self, float) ==
    [self EXCEPT !.current = Append(@, DocText(FloatText(float)))]

(***************************************************************************)
(* Rendering of the documents (pretty.rs 47-49, 63-67, 19-20): a list is   *)
(* "(" group(nest(2, children separated by line)) ")"; a group is laid out *)
(* on one line when it fits in the width together with what follows it on  *)
(* the line (trail), otherwise every line of the group is a line break     *)
(* followed by the indentation.                                            *)
(***************************************************************************)
RECURSIVE FlatWidth(_)
RECURSIVE FlatWidthSeq(_, _)
FlatWidthSeq(docs, k) ==
    IF k > Len(docs) THEN 0
    ELSE FlatWidth(docs[k]) + (IF k < Len(docs) THEN 1 ELSE 0)
            + FlatWidthSeq(docs, k + 1)

FlatWidth(doc) ==
    IF Kind(doc) = "text" THEN Len(Payload(doc))
    ELSE 2 + FlatWidthSeq(Payload(doc), 1)

RECURSIVE Flat(_)
RECURSIVE FlatSeq(_, _)
FlatSeq(docs, k) ==
    IF k > Len(docs) THEN <<>>
    ELSE Flat(docs[k]) \o (IF k < Len(docs) THEN <<" ">> ELSE <<>>)
            \o FlatSeq(docs, k + 1)

Flat(doc) ==
    IF Kind(doc) = "text" THEN Payload(doc)
    ELSE <<"(">> \o FlatSeq(Payload(doc), 1) \o <<")">>

\* Layout of a document starting at column col with indentation ind:
\* <<text, column after it>>.
RECURSIVE LayoutDoc(_, _, _, _, _)
RECURSIVE LayoutItems(_, _, _, _, _, _)

LayoutJoin(prefix, r) == <<prefix \o r[1], r[2]>>

LayoutClose(r) == <<r[1] \o <<")">>, r[2] + 1>>

LayoutRest(docs, k, ind, trail, width, r) ==
    IF k = Len(docs) THEN r
    ELSE LayoutJoin(r[1] \o <<NL>> \o Repeat(" ", ind),
                    LayoutItems(docs, k + 1, ind, ind, trail, width))

LayoutItems(docs, k, ind, col, trail, width) ==
    IF k > Len(docs) THEN <<<<>>, col>>
    ELSE LayoutRest(docs, k, ind, trail, width,
                    LayoutDoc(docs[k], ind, col,
                              IF k = Len(docs) THEN trail ELSE 0, width))

LayoutDoc(doc, ind, col, trail, width) ==
    IF Kind(doc) = "text" THEN <<Payload(doc), col + Len(Payload(doc))>>
    ELSE IF col + FlatWidth(doc) + trail <= width
         THEN <<Flat(doc), col + FlatWidth(doc)>>
    ELSE LayoutClose(LayoutJoin(<<"(">>,
             LayoutItems(Payload(doc), 1, ind + 2, col + 1, trail + 1, width)))

\* Pretty::finish and render_fmt: the top-level documents, one per line.
Render(docs, width) == LayoutItems(docs, 1, 0, 0, 0, width)[1]

(***************************************************************************)
(* State.                                                                  *)
(*   str      the text given to from_str                                   *)
(*   pc       position inside from_str: "lex", "balance", "read", "failed" *)
(*   tokens   the flat token sequence (tokens of from_str)                 *)
(*   i, stack the loop index and the stack of balance_lists                *)
(*   err      the ReadError from_str returns, NoError while there is none  *)
(*   stream   the ReaderStream the consumer is working on                  *)
(*   saved    the parent views the consumer keeps while inside a list      *)
(*   ret      what the last peek() / next() returned                       *)
(*   op       the last ReaderStream operation                              *)
(*   target   the type T of from_str::<T>                                  *)
(*   forms    the sibling forms str was written from (binder inputs)       *)
(*   result   what from_str::<T> or to_values returned                     *)
(*   input    the values handed to to_values / to_string_pretty            *)
(*   arg      their type: "Value" (input is one value) or "Vec"            *)
(*   sink     the output stream: "values" or "pretty"                      *)
(*   width    the width given to to_string_pretty                          *)
(*   work     what to_parens still has to write: values to visit and the   *)
(*            ends of the lists it is inside of                            *)
(*   out      the output stream                                            *)
(*   wpc      position of the writer: "write", "rendered", "done", "idle"  *)
(***************************************************************************)
VARIABLES str, pc, tokens, i, stack, err, stream, saved, ret, op,
          target, forms, result, input, arg, sink, width, work, out, wpc

rvars == <<str, pc, tokens, i, stack, err, stream, saved, ret, op>>
bvars == <<target, forms>>
wvars == <<result, input, arg, sink, width, work, out, wpc>>
vars == <<rvars, bvars, wvars>>

NoStream == ReaderStream(1, 0, <<0, 0>>, <<0, 0>>)

\* The reader at rest.
ReaderIdle ==
    /\ pc = "idle"
    /\ tokens = <<>>
    /\ i = 1
    /\ stack = <<>>
    /\ err = NoError
    /\ stream = NoStream
    /\ saved = <<>>
    /\ ret = TokenTreeNone
    /\ op = "none"

\* The writer at rest.
WriterIdle ==
    /\ result = Nothing
    /\ input = <<>>
    /\ arg = "Value"
    /\ sink = "values"
    /\ width = 0
    /\ work = <<>>
    /\ out = NewStream
    /\ wpc = "idle"

(***************************************************************************)
(* Spec: from_str step by step, then the consumer's calls on the           *)
(* ReaderStream.                                                           *)
(***************************************************************************)
\* Input texts: up to MaxPieces lexemes, enclosed in up to MaxWrap lists.
MaxPieces == 4
MaxWrap == 1

Pieces ==
    { <<"(">>, <<")">>, <<" ">>, <<"a">>, <<"1">>, <<"+">>, <<"#", "f">>,
      <<"+", "i", "n", "f", ".", "0">>, <<";", NL>> }

RECURSIVE Texts(_)
Texts(n) ==
    IF n = 0 THEN {<<>>}
    ELSE LET shorter == Texts(n - 1)
         IN shorter \cup {t \o p : t \in shorter, p \in Pieces}

RECURSIVE Wrap(_, _)
Wrap(t, w) == IF w = 0 THEN t ELSE <<"(">> \o Wrap(t, w - 1) \o <<")">>

Init ==
    /\ str \in {Wrap(t, w) : t \in Texts(MaxPieces), w \in 0..MaxWrap}
    /\ pc = "lex"
    /\ tokens = <<>>
    /\ i = 1
    /\ stack = <<>>
    /\ err = NoError
    /\ stream = NoStream
    /\ saved = <<>>
    /\ ret = TokenTreeNone
    /\ op = "none"
    /\ target = TVecValue
    /\ forms = <<>>
    /\ WriterIdle

\* from_str, read.rs 85-94: lexing, comment filter, error mapping and
\* check_whitespace.
Tokenize ==
    /\ pc = "lex"
    /\ \E lexed \in {Lex(str)} :
          \E ws \in {check_whitespace(lexed.tokens)} :
             /\ tokens' = lexed.tokens
             /\ err' = IF lexed.err # NoError THEN lexed.err ELSE ws
             /\ pc' = IF lexed.err # NoError \/ ws # NoError
                      THEN "failed" ELSE "balance"
    /\ UNCHANGED <<str, i, stack, stream, saved, ret, op>>
    /\ UNCHANGED <<bvars, wvars>>

\* One iteration of the loop of balance_lists.
BalanceLoop ==
    /\ pc = "balance"
    /\ i <= Len(tokens)
    /\ \E b \in {BalanceIter([i |-> i, stack |-> stack, tokens |-> tokens,
                                err |-> err])} :
          /\ i' = b.i
          /\ stack' = b.stack
          /\ tokens' = b.tokens
          /\ err' = b.err
          /\ pc' = IF b.err # NoError THEN "failed" ELSE "balance"
    /\ UNCHANGED <<str, stream, saved, ret, op>>
    /\ UNCHANGED <<bvars, wvars>>

\* The end of balance_lists and, on success, the construction of the root
\* ReaderStream (read.rs 156-160, 97-101).
BalanceDone ==
    /\ pc = "balance"
    /\ i > Len(tokens)
    /\ err' = BalanceEnd([i |-> i, stack |-> stack, tokens |-> tokens,
                          err |-> err])
    /\ pc' = IF err' # NoError THEN "failed" ELSE "read"
    /\ stream' = IF err' # NoError THEN stream
                 ELSE RootStream(tokens, Len(str))
    /\ UNCHANGED <<str, tokens, i, stack, saved, ret, op>>
    /\ UNCHANGED <<bvars, wvars>>

\* ReaderStream::peek
Peek ==
    /\ pc = "read"
    /\ ret' = peek(tokens, stream)
    /\ op' = "peek"
    /\ UNCHANGED <<str, pc, tokens, i, stack, err, stream, saved>>
    /\ UNCHANGED <<bvars, wvars>>

\* ReaderStream::next
Next_ ==
    /\ pc = "read"
    /\ \E r \in {next(tokens, stream)} :
          /\ ret' = r[1]
          /\ stream' = r[2]
    /\ op' = "next"
    /\ UNCHANGED <<str, pc, tokens, i, stack, err, saved>>
    /\ UNCHANGED <<bvars, wvars>>

\* The consumer goes on with the child view the last call returned and
\* keeps the parent view.
Descend ==
    /\ pc = "read"
    /\ op \in {"peek", "next"}
    /\ Kind(ret) = "List"
    /\ saved' = Append(saved, stream)
    /\ stream' = Payload(ret)
    /\ ret' = TokenTreeNone
    /\ op' = "descend"
    /\ UNCHANGED <<str, pc, tokens, i, stack, err>>
    /\ UNCHANGED <<bvars, wvars>>

\* The consumer is finished with a child view and returns to its parent.
Ascend ==
    /\ pc = "read"
    /\ saved # <<>>
    /\ stream' = saved[Len(saved)]
    /\ saved' = SubSeq(saved, 1, Len(saved) - 1)
    /\ ret' = TokenTreeNone
    /\ op' = "ascend"
    /\ UNCHANGED <<str, pc, tokens, i, stack, err>>
    /\ UNCHANGED <<bvars, wvars>>

Next ==
    \/ Tokenize
    \/ BalanceLoop
    \/ BalanceDone
    \/ Peek
    \/ Next_
    \/ Descend
    \/ Ascend

Spec == Init /\ [][Next]_vars

(***************************************************************************)
(* SpecStrings: from_str and the ReaderStream on one string literal, bare  *)
(* or enclosed in lists.                                                   *)
(***************************************************************************)
MaxBodyPieces == 2

\* What the body of a literal is made of: ordinary characters, the escapes
\* of the String pattern, a \u{HEX} escape, and a backslash before a
\* character that is no escape.
BodyPieces ==
    { <<"a">>, <<"u", "{", "4", "1", "}">>,
      <<"\\", "\\">>, <<"\\", "\"">>, <<"\\", "t">>, <<"\\", "n">>, <<"\\", "r">>,
      <<"\\", "u", "{", "4", "1", "}">>, <<"\\", "x">> }

RECURSIVE Bodies(_)
Bodies(n) ==
    IF n = 0 THEN {<<>>}
    ELSE LET shorter == Bodies(n - 1)
         IN shorter \cup {b \o p : b \in shorter, p \in BodyPieces}

InitStrings ==
    /\ str \in {Wrap(<<"\"">> \o b \o <<"\"">>, w) :
                   b \in Bodies(MaxBodyPieces), w \in 0..MaxWrap}
    /\ pc = "lex"
    /\ tokens = <<>>
    /\ i = 1
    /\ stack = <<>>
    /\ err = NoError
    /\ stream = NoStream
    /\ saved = <<>>
    /\ ret = TokenTreeNone
    /\ op = "none"
    /\ target = TVecValue
    /\ forms = <<>>
    /\ WriterIdle

SpecStrings == InitStrings /\ [][Next]_vars

(***************************************************************************)
(* SpecBind: from_str::<T> for record types T, on runs of sibling forms.   *)
(***************************************************************************)
MaxForms == 4

field == <<"f", "i", "e", "l", "d">>
values == <<"v", "a", "l", "u", "e", "s">>
inner == <<"i", "n", "n", "e", "r">>

Quoted(c) == <<"\"", c, "\"">>
Tagged(name, body) == <<"(">> \o name \o <<" ">> \o body \o <<")">>

\* The sibling forms the inputs are written from.
FormTexts ==
    << Tagged(field, Quoted("s")),
       Tagged(field, Quoted("t")),
       Tagged(values, Quoted("0")),
       Tagged(values, Quoted("1")),
       Tagged(inner, <<"x", " ">> \o Tagged(field, Quoted("s"))),
       Tagged(inner, Tagged(field, Quoted("t")) \o <<" ", "y">>),
       Tagged(inner, <<"y">>),
       Tagged(inner, <<"x", " ">> \o Tagged(field, Quoted("s")) \o <<" ">>
                        \o Tagged(field, Quoted("t"))),
       <<"x">>,
       Quoted("s") >>

\* The record types of the derive tests.
OptionalTest == TRecord(<<optional(field, TString)>>)
RequiredTest == TRecord(<<required(field, TString)>>)
RepeatedTest == TRecord(<<repeated(values, TString)>>)
Inner == TRecord(<<positional(TSymbol), required(field, TString)>>)
Outer == TRecord(<<repeated(inner, Inner)>>)
MixedTest ==
    TRecord(<<positional(TSymbol), repeated(values, TString),
              optional(field, TString)>>)

Targets == {OptionalTest, RequiredTest, RepeatedTest, Outer, MixedTest}

\* The forms a type is tried on: those of its slots, and one or two it
\* has no slot for.
Vocabulary(type) ==
    IF type \in {OptionalTest, RequiredTest} THEN {1, 2, 3, 9}
    ELSE IF type = RepeatedTest THEN {3, 4, 1, 10}
    ELSE IF type = Outer THEN {5, 6, 7, 8}
    ELSE {1, 2, 3, 4, 9}

RECURSIVE FormSeqs(_, _)
FormSeqs(n, voc) ==
    IF n = 0 THEN {<<>>}
    ELSE LET shorter == FormSeqs(n - 1, voc)
         IN shorter \cup {Append(fs, f) : fs \in shorter, f \in voc}

\* The forms, one per line.
RECURSIVE JoinForms(_)
JoinForms(fs) ==
    IF fs = <<>> THEN <<>>
    ELSE FormTexts[fs[1]] \o <<NL>> \o JoinForms(Tail(fs))

InitBind ==
    /\ target \in Targets
    /\ forms \in FormSeqs(MaxForms, Vocabulary(target))
    /\ str = JoinForms(forms)
    /\ ReaderIdle
    /\ WriterIdle

\* from_str::<T>(str)
FromStr ==
    /\ pc = "idle"
    /\ wpc = "idle"
    /\ result' = from_str(target, str)
    /\ wpc' = "done"
    /\ UNCHANGED <<rvars, bvars, input, arg, sink, width, work, out>>

NextBind == FromStr

SpecBind == InitBind /\ [][NextBind]_vars

(***************************************************************************)
(* SpecWrite: to_values and to_string_pretty, write by write, and the      *)
(* text of to_string_pretty read back with from_str.                       *)
(***************************************************************************)
MaxNodes == 3
MaxDeepNodes == 5

\* Atoms of every kind, with the texts that need escaping.
AllAtoms ==
    { ValueString(<<>>), ValueString(<<"a">>), ValueString(<<"a", " ", "b">>),
      ValueString(<<"\"">>), ValueString(<<"\\", "n">>), ValueString(<<NL>>),
      ValueString(<<";">>), ValueString(<<"(">>),
      ValueSymbol(<<"a">>), ValueSymbol(<<"+">>), ValueSymbol(<<"-", "a">>),
      ValueSymbol(<<>>), ValueSymbol(<<"1">>), ValueSymbol(<<"+", "1">>),
      ValueSymbol(<<"a", " ", "b">>), ValueSymbol(<<"|">>),
      ValueSymbol(<<"#", "t">>), ValueSymbol(<<"(">>),
      ValueBool(TRUE), ValueBool(FALSE),
      ValueInt(0), ValueInt(12), ValueInt(0 - 7),
      ValueFloat(FloatNaN), ValueFloat(FloatInf(FALSE)), ValueFloat(FloatInf(TRUE)),
      ValueFloat(FloatFinite(FALSE, 1, 0)), ValueFloat(FloatFinite(TRUE, 0, 0)),
      ValueFloat(FloatFinite(FALSE, 0, 0)), ValueFloat(FloatFinite(FALSE, 3, 2)),
      ValueFloat(FloatFinite(TRUE, 25, 0 - 1)), ValueFloat(FloatFinite(FALSE, 5, 0 - 3)) }

CoreAtoms ==
    { ValueString(<<"a">>), ValueSymbol(<<"a">>), ValueSymbol(<<"+">>),
      ValueBool(FALSE), ValueInt(1), ValueFloat(FloatFinite(FALSE, 1, 0)) }

\* The value trees of exactly n nodes, and the sequences of value trees
\* of n nodes in all, over the given atoms.
RECURSIVE ValuesOfSize(_, _)
RECURSIVE SeqsOfSize(_, _)
SeqsOfSize(n, atoms) ==
    IF n = 0 THEN {<<>>}
    ELSE UNION {{<<v>> \o rest : v \in ValuesOfSize(k, atoms),
                                 rest \in SeqsOfSize(n - k, atoms)} : k \in 1..n}

ValuesOfSize(n, atoms) ==
    (IF n = 1 THEN atoms ELSE {})
        \cup {ValueList(items) : items \in SeqsOfSize(n - 1, atoms)}

ValuesUpTo(n, atoms) == UNION {ValuesOfSize(k, atoms) : k \in 1..n}

Inputs ==
    AllAtoms \cup {ValueList(<<a>>) : a \in AllAtoms}
        \cup ValuesUpTo(MaxNodes, CoreAtoms)
        \cup ValuesUpTo(MaxDeepNodes, {ValueSymbol(<<"a">>)})

\* Floats: every m * 10^e of a mantissa up to MaxMantissa and an exponent
\* of up to MaxExponent either way, of both signs.
MaxMantissa == 12
MaxExponent == 2

FloatInputs ==
    {ValueFloat(FloatFinite(neg, m, e)) :
        neg \in BOOLEAN, m \in 0..MaxMantissa, e \in (0 - MaxExponent)..MaxExponent}

Widths == {0, 6, 80}

Visit(v) == <<"Visit", v>>
EndList == <<"EndList", 0>>

\* impl ToParens for Vec<V>: the values are written one after the other.
VisitAll(vs) == [k \in 1..Len(vs) |-> Visit(vs[k])]

InitWrite ==
    /\ \E v \in Inputs \cup FloatInputs :
          /\ arg \in (IF Kind(v) = "List" THEN {"Value", "Vec"} ELSE {"Value"})
          /\ input = IF arg = "Vec" THEN Payload(v) ELSE <<v>>
    /\ sink \in {"values", "pretty"}
    /\ width \in (IF sink = "pretty" THEN Widths ELSE {0})
    /\ work = VisitAll(input)
    /\ out = NewStream
    /\ wpc = "write"
    /\ result = Nothing
    /\ str = <<>>
    /\ target = IF arg = "Vec" THEN TVecValue ELSE TValue
    /\ forms = <<>>
    /\ ReaderIdle

Visiting(kind) ==
    /\ wpc = "write"
    /\ work # <<>>
    /\ work[1][1] = "Visit"
    /\ Kind(work[1][2]) = kind

\* Value::List(list) => output.list(|output| list.to_parens(output)),
\* up to the call of the closure.
WriteList ==
    /\ Visiting("List")
    /\ out' = list_enter(out)
    /\ work' = VisitAll(Payload(work[1][2])) \o <<EndList>> \o Tail(work)
    /\ UNCHANGED <<rvars, bvars, result, input, arg, sink, width, wpc>>

\* The closure of list(f) returned: the rest of list(f).
WriteListEnd ==
    /\ wpc = "write"
    /\ work # <<>>
    /\ work[1] = EndList
    /\ out' = IF sink = "values" THEN ValueOutputStream_list_exit(out)
              ELSE Pretty_list_exit(out)
    /\ work' = Tail(work)
    /\ UNCHANGED <<rvars, bvars, result, input, arg, sink, width, wpc>>

WriteString ==
    /\ Visiting("String")
    /\ out' = IF sink = "values"
              THEN ValueOutputStream_string(out, Payload(work[1][2]))
              ELSE Pretty_string(out, Payload(work[1][2]))
    /\ work' = Tail(work)
    /\ UNCHANGED <<rvars, bvars, result, input, arg, sink, width, wpc>>

WriteSymbol ==
    /\ Visiting("Symbol")
    /\ out' = IF sink = "values"
              THEN ValueOutputStream_symbol(out, Payload(work[1][2]))
              ELSE Pretty_symbol(out, Payload(work[1][2]))
    /\ work' = Tail(work)
    /\ UNCHANGED <<rvars, bvars, result, input, arg, sink, width, wpc>>

WriteBool ==
    /\ Visiting("Bool")
    /\ out' = IF sink = "values"
              THEN ValueOutputStream_bool(out, Payload(work[1][2]))
              ELSE Pretty_bool(out, Payload(work[1][2]))
    /\ work' = Tail(work)
    /\ UNCHANGED <<rvars, bvars, result, input, arg, sink, width, wpc>>

WriteInt ==
    /\ Visiting("Int")
    /\ out' = IF sink = "values"
              THEN ValueOutputStream_int(out, Payload(work[1][2]))
              ELSE Pretty_int(out, Payload(work[1][2]))
    /\ work' = Tail(work)
    /\ UNCHANGED <<rvars, bvars, result, input, arg, sink, width, wpc>>

WriteFloat ==
    /\ Visiting("Float")
    /\ out' = IF sink = "values"
              THEN ValueOutputStream_float(out, Payload(work[1][2]))
              ELSE Pretty_float(out, Payload(work[1][2]))
    /\ work' = Tail(work)
    /\ UNCHANGED <<rvars, bvars, result, input, arg, sink, width, wpc>>

\* to_values: output.finish()
FinishValues ==
    /\ wpc = "write"
    /\ work = <<>>
    /\ sink = "values"
    /\ result' = out.current
    /\ wpc' = "done"
    /\ UNCHANGED <<rvars, bvars, input, arg, sink, width, work, out>>

\* to_string_pretty: pretty.finish() and doc.render_fmt(width, f)
FinishPretty ==
    /\ wpc = "write"
    /\ work = <<>>
    /\ sink = "pretty"
    /\ str' = Render(out.current, width)
    /\ wpc' = "rendered"
    /\ UNCHANGED <<pc, tokens, i, stack, err, stream, saved, ret, op>>
    /\ UNCHANGED <<bvars, result, input, arg, sink, width, work, out>>

\* from_str::<Value> (from_str::<Vec<Value>> for a Vec) on the text.
ReadBack ==
    /\ wpc = "rendered"
    /\ result' = from_str(target, str)
    /\ wpc' = "done"
    /\ UNCHANGED <<rvars, bvars, input, arg, sink, width, work, out>>

NextWrite ==
    \/ WriteList
    \/ WriteListEnd
    \/ WriteString
    \/ WriteSymbol
    \/ WriteBool
    \/ WriteInt
    \/ WriteFloat
    \/ FinishValues
    \/ FinishPretty
    \/ ReadBack

SpecWrite == InitWrite /\ [][NextWrite]_vars

(***************************************************************************)
(* Nesting structure of a token sequence, read off the token kinds alone   *)
(* (never the skip values): the reference the claims are stated against.   *)
(***************************************************************************)
IsOpen(toks, k) == Kind(toks[k].token) = "OpenList"
IsClose(toks, k) == Kind(toks[k].token) = "CloseList"

\* Number of openers minus number of closers among toks[1 .. n].
Depth(toks, n) ==
    Cardinality({k \in 1..n : IsOpen(toks, k)})
        - Cardinality({k \in 1..n : IsClose(toks, k)})

\* Index of the closer matching the opener at a, 0 when it has none.
MatchOf(toks, a) ==
    LET cs == {c \in (a + 1)..Len(toks) : Depth(toks, c) = Depth(toks, a - 1)}
    IN IF cs = {} THEN 0 ELSE CHOOSE c \in cs : \A d \in cs : c <= d

\* Index of the first closer that has no opener to match, 0 when none.
FirstUnmatchedClose(toks) ==
    LET cs == {c \in 1..Len(toks) : Depth(toks, c) < 0}
    IN IF cs = {} THEN 0 ELSE CHOOSE c \in cs : \A d \in cs : c <= d

\* Openers among toks[1 .. n] whose closer is not among toks[1 .. n].
UnmatchedOpeners(toks, n) ==
    {a \in 1..n : IsOpen(toks, a)
                  /\ (MatchOf(toks, a) = 0 \/ MatchOf(toks, a) > n)}

Skip(toks, a) == Payload(toks[a].token)

Touching(toks, w) == toks[w].span[2] = toks[w + 1].span[1]

\* C2: after a successful balancing pass every OpenList at index a carries
\* the distance to its matching CloseList, everything strictly between the
\* two lies inside the list, pairs are nested or disjoint, and every
\* CloseList is the partner of exactly one OpenList.
C2_BalanceInvariant ==
    pc = "read" =>
        /\ \A a \in 1..Len(tokens) : IsOpen(tokens, a) =>
              /\ Skip(tokens, a) >= 1
              /\ a + Skip(tokens, a) <= Len(tokens)
              /\ IsClose(tokens, a + Skip(tokens, a))
              /\ a + Skip(tokens, a) = MatchOf(tokens, a)
              /\ \A m \in (a + 1)..(a + Skip(tokens, a) - 1) :
                    Depth(tokens, m) >= Depth(tokens, a)
              /\ \A b \in 1..Len(tokens) : (IsOpen(tokens, b) /\ a < b) =>
                    \/ b > a + Skip(tokens, a)
                    \/ b + Skip(tokens, b) < a + Skip(tokens, a)
        /\ \A c \in 1..Len(tokens) : IsClose(tokens, c) =>
              Cardinality({a \in 1..Len(tokens) :
                              IsOpen(tokens, a) /\ a + Skip(tokens, a) = c}) = 1

\* A balanced sequence with a non-empty list nested in a list.
C2_Witness ==
    /\ pc = "read"
    /\ \E a, b \in 1..Len(tokens) :
          /\ IsOpen(tokens, a) /\ IsOpen(tokens, b) /\ a < b
          /\ b + Skip(tokens, b) < a + Skip(tokens, a)
          /\ Skip(tokens, a) >= 4

\* What the balancing pass has to answer on toks.
ExpectedBalance(toks) ==
    IF FirstUnmatchedClose(toks) # 0
    THEN ErrUnexpectedClose(toks[FirstUnmatchedClose(toks)].span)
    ELSE IF Depth(toks, Len(toks)) > 0 THEN ErrEndOfFile
    ELSE NoError

IsIncreasing(seq) == \A k \in 1..(Len(seq) - 1) : seq[k] < seq[k + 1]

\* C3: the balancing pass goes left to right keeping the stack of the
\* unmatched openers of the tokens seen so far; it fails with
\* UnexpectedClose and that token's span at the first closer without an
\* unmatched opener, with EndOfFile when openers are left at the end, and
\* succeeds in every other case.
C3_BalanceResult ==
    /\ pc = "balance" =>
          /\ IsIncreasing(stack)
          /\ {stack[k] : k \in 1..Len(stack)} = UnmatchedOpeners(tokens, i - 1)
          /\ \A c \in 1..(i - 1) : Depth(tokens, c) >= 0
    /\ (pc \in {"read", "failed"} /\ Kind(err) \notin {"Syntax", "ExpectedWhitespace"}) =>
          /\ err = ExpectedBalance(tokens)
          /\ Kind(err) = "UnexpectedClose" => i = FirstUnmatchedClose(tokens)
          /\ pc = "read" <=> (FirstUnmatchedClose(tokens) = 0
                               /\ Depth(tokens, Len(tokens)) = 0)

\* UnexpectedClose at a closer that follows a complete list.
C3_Witness ==
    /\ pc = "failed"
    /\ Kind(err) = "UnexpectedClose"
    /\ i >= 3
    /\ \E a \in 1..(i - 1) : IsOpen(tokens, a)

\* Two sibling forms touch at w: a form ends with toks[w] (an atom or a
\* closer) and the next form starts with toks[w + 1] (an atom or an opener).
SiblingsTouch(toks, w) ==
    /\ ~IsOpen(toks, w)
    /\ ~IsClose(toks, w + 1)
    /\ Touching(toks, w)

AmbiguousTexts ==
    { <<"+", "#", "f">>, <<"+", "+", "i", "n", "f", ".", "0">>,
      <<"(", ")", "(", ")">> }

\* C4: a text in which two sibling forms touch is rejected, whatever the
\* kinds of the two forms and at any depth; `+#f`, `++inf.0` and `()()`
\* are rejected.
C4_TouchingSiblingsRejected ==
    /\ (pc # "lex" /\ \E w \in 1..(Len(tokens) - 1) : SiblingsTouch(tokens, w))
          => (pc = "failed" /\ Kind(err) = "ExpectedWhitespace")
    /\ (pc # "lex" /\ str \in AmbiguousTexts) => pc = "failed"

\* Two lists touching inside a list.
C4_Witness ==
    /\ pc = "failed"
    /\ Kind(err) = "ExpectedWhitespace"
    /\ \E w \in 2..(Len(tokens) - 1) :
          /\ IsClose(tokens, w) /\ IsOpen(tokens, w + 1)
          /\ err = ErrExpectedWhitespace(tokens[w].span, tokens[w + 1].span)
          /\ Depth(tokens, w) >= 1

IsDelimiter(toks, k) == IsOpen(toks, k) \/ IsClose(toks, k)

\* The window an ExpectedWhitespace error reports.
Reported(toks, e, w) == e = ErrExpectedWhitespace(toks[w].span, toks[w + 1].span)

\* C5 as stated: a touching pair is rejected only when neither token is a
\* list delimiter.
C5_Original ==
    Kind(err) = "ExpectedWhitespace" =>
        \A w \in 1..(Len(tokens) - 1) : Reported(tokens, err, w) =>
            (~IsDelimiter(tokens, w) /\ ~IsDelimiter(tokens, w + 1))

\* C5 amended: a touching pair is accepted exactly when its first token is
\* an opener or its second token is a closer; the pair reported by
\* ExpectedWhitespace is the first touching pair that is neither.
C5_Amended ==
    /\ Kind(err) = "ExpectedWhitespace" =>
          \E w \in 1..(Len(tokens) - 1) :
             /\ Reported(tokens, err, w)
             /\ Touching(tokens, w)
             /\ ~IsOpen(tokens, w) /\ ~IsClose(tokens, w + 1)
             /\ \A v \in 1..(w - 1) :
                   Touching(tokens, v) => (IsOpen(tokens, v) \/ IsClose(tokens, v + 1))
    /\ (pc # "lex" /\ Kind(err) # "Syntax"
          /\ \A w \in 1..(Len(tokens) - 1) :
                Touching(tokens, w) => (IsOpen(tokens, w) \/ IsClose(tokens, w + 1)))
          => Kind(err) # "ExpectedWhitespace"

\* A text that passed the check although an atom touches the opener
\* before it and the closer after it.
C5_Witness ==
    /\ pc \in {"balance", "read"}
    /\ \E w \in 1..(Len(tokens) - 2) :
          /\ IsOpen(tokens, w) /\ Touching(tokens, w)
          /\ ~IsDelimiter(tokens, w + 1)
          /\ IsClose(tokens, w + 2) /\ Touching(tokens, w + 1)

\* Index of the last token of the form that starts at p.
FormEnd(toks, p) == IF IsOpen(toks, p) THEN MatchOf(toks, p) ELSE p

\* C6: peek() leaves the view alone; next() returns what peek() returns on
\* the view before the call and moves the view past exactly one form: one
\* token for an atom, the opener, the descendants and the matching closer
\* for a list, whose child view holds the tokens strictly between the two;
\* on an exhausted view next() returns None and the view stays.
C6_NextAdvancesOneForm ==
    [][pc = "read" =>
         /\ op' = "peek" => stream' = stream
         /\ op' = "next" =>
               /\ ret' = peek(tokens, stream)
               /\ stream'.hi = stream.hi
               /\ IF ViewLen(stream) <= 0
                  THEN ret' = TokenTreeNone /\ stream' = stream
                  ELSE /\ stream'.lo = FormEnd(tokens, stream.lo) + 1
                       /\ IF IsOpen(tokens, stream.lo)
                          THEN /\ Kind(ret') = "List"
                               /\ Payload(ret').lo = stream.lo + 1
                               /\ Payload(ret').hi = MatchOf(tokens, stream.lo) - 1
                          ELSE ret' = tokens[stream.lo].token]_vars

\* next() has just returned a non-empty list that is followed by a sibling.
C6_Witness ==
    /\ pc = "read"
    /\ op = "next"
    /\ Kind(ret) = "List"
    /\ ViewLen(Payload(ret)) >= 1
    /\ ViewLen(stream) >= 1

\* C7: span() right after next() returned a list, and parent_span() of the
\* child view of that list, are the byte range from the start of the
\* opening parenthesis to the end of the matching closing parenthesis;
\* span() after next() returned an atom is the atom's span; parent_span()
\* of the top-level view is the whole input.
C7_ListSpanIsWholeList ==
    pc = "read" =>
        /\ (op = "next" /\ Kind(ret) = "List") =>
              LET whole == <<tokens[Payload(ret).lo - 1].span[1],
                             tokens[Payload(ret).hi + 1].span[2]>>
              IN /\ span(stream) = whole
                 /\ parent_span(Payload(ret)) = whole
        /\ (op = "next" /\ Kind(ret) \notin {"List", "None", "Panic"}) =>
              span(stream) = tokens[stream.lo - 1].span
        /\ saved = <<>> => parent_span(stream) = <<0, Len(str)>>

(***************************************************************************)
(* Writing.                                                                *)
(***************************************************************************)
\* C10: to_values(v) is the one-element sequence [v] and to_values(vs) is
\* vs: the values collected by the ValueOutputStream are the values
\* written, with the same nesting, order, atom kinds and contents.
C10_ToValuesIsIdentity ==
    (wpc = "done" /\ sink = "values") => result = input

RECURSIVE ValueDepth(_)
ValueDepth(v) ==
    IF Kind(v) # "List" THEN 0
    ELSE 1 + (IF Payload(v) = <<>> THEN 0
              ELSE LET ds == {ValueDepth(Payload(v)[k]) : k \in 1..Len(Payload(v))}
                   IN CHOOSE d \in ds : \A e \in ds : e <= d)

\* A list with a list in it and an atom after that list came through, and
\* so did a Vec of two values.
C10_Witness ==
    /\ wpc = "done"
    /\ sink = "values"
    /\ result = input
    /\ \/ /\ arg = "Value"
          /\ ValueDepth(input[1]) >= 2
          /\ Len(Payload(input[1])) >= 2
          /\ Kind(Payload(input[1])[1]) = "List"
          /\ Kind(Payload(input[1])[2]) = "Symbol"
       \/ /\ arg = "Vec"
          /\ Len(input) >= 2
          /\ Kind(input[1]) = "String"
          /\ Kind(input[2]) = "Symbol"

\* C1: for every Value v and every width, from_str::<Value> on the text
\* to_string_pretty wrote for v succeeds and returns v (floats by their
\* value, NaN equal to NaN).
C1_PrettyRoundTrip ==
    (wpc = "done" /\ sink = "pretty" /\ arg = "Value") => result = Ok(input[1])

\* A nested list was broken over several lines and read back, and so was
\* an integral float.
C1_Witness ==
    /\ wpc = "done"
    /\ sink = "pretty"
    /\ arg = "Value"
    /\ result = Ok(input[1])
    /\ \/ /\ ValueDepth(input[1]) >= 2
          /\ \E k \in 1..Len(str) : str[k] = NL
       \/ /\ Kind(input[1]) = "Float"
          /\ Kind(Payload(input[1])) = "finite"
          /\ IsIntegral(Payload(input[1]))

(***************************************************************************)
(* Binding.  What the siblings of an input are is known from forms.        *)
(***************************************************************************)
FormTag(f) ==
    IF f \in {1, 2} THEN "field"
    ELSE IF f \in {3, 4} THEN "values"
    ELSE IF f \in {5, 6, 7, 8} THEN "inner"
    ELSE IF f = 9 THEN "symbol"
    ELSE "string"

\* The inner value of a tagged form (name "c").
FormInner(f) == TokenString(<<FormTexts[f][Len(FormTexts[f]) - 2]>>)

Occurrences(tag) == {k \in 1..Len(forms) : FormTag(forms[k]) = tag}
OnlyTags(tags) == \A k \in 1..Len(forms) : FormTag(forms[k]) \in tags

\* The inner values of the forms of a tag, in the order of the text.
RECURSIVE InnerValues(_, _)
InnerValues(fs, tag) ==
    IF fs = <<>> THEN <<>>
    ELSE (IF FormTag(fs[1]) = tag THEN <<FormInner(fs[1])>> ELSE <<>>)
             \o InnerValues(Tail(fs), tag)

RecordOf(fields) == Ok(<<"Record", fields>>)
Missing == Fail(ErrParse("missing field"))
Duplicate == Fail(ErrParse("duplicate field"))

\* C8: a required(name) slot binds exactly when one form (name ...) is
\* among the siblings, to its inner value; none is a missing-field Parse
\* error, two or more a duplicate-field Parse error.  An optional(name)
\* slot binds to None for none, to the inner value for one, and two or
\* more are a Parse error.  A failure returns no record.
C8_OccurrenceCounts ==
    wpc = "done" =>
        LET n == Cardinality(Occurrences("field"))
            some == <<"Some", InnerValues(forms, "field")[1]>>
            none == <<"None", 0>>
        IN /\ (target = RequiredTest /\ OnlyTags({"field"})) =>
                 result = (IF n = 0 THEN Missing
                           ELSE IF n = 1
                           THEN RecordOf(<<InnerValues(forms, "field")[1]>>)
                           ELSE Duplicate)
           /\ (target = RequiredTest /\ result.err = NoError) => n = 1
           /\ (target = OptionalTest /\ OnlyTags({"field"})) =>
                 result = (IF n = 0 THEN RecordOf(<<none>>)
                           ELSE IF n = 1 THEN RecordOf(<<some>>)
                           ELSE Duplicate)
           /\ (target = OptionalTest /\ result.err = NoError) => n <= 1
           /\ (/\ target = MixedTest
               /\ OnlyTags({"field", "values", "symbol"})
               /\ Cardinality(Occurrences("symbol")) = 1) =>
                 result = (IF n >= 2 THEN Duplicate
                           ELSE RecordOf(<<TokenSymbol(<<"x">>),
                                           <<"Vec", InnerValues(forms, "values")>>,
                                           IF n = 0 THEN none ELSE some>>))
           /\ result.err # NoError => result.value = Nothing

\* A required field given twice, and an optional field given once after
\* forms of other slots.
C8_Witness ==
    /\ wpc = "done"
    /\ \/ /\ target = RequiredTest
          /\ forms = <<1, 2>>
          /\ result = Duplicate
       \/ /\ target = MixedTest
          /\ forms = <<3, 9, 2>>
          /\ result.err = NoError

\* What the Inner of an (inner ...) form is: a record, or the error of the
\* form that has no field or two.
InnerOf(f) ==
    IF f = 5 THEN RecordOf(<<TokenSymbol(<<"x">>), TokenString(<<"s">>)>>)
    ELSE IF f = 6 THEN RecordOf(<<TokenSymbol(<<"y">>), TokenString(<<"t">>)>>)
    ELSE IF f = 7 THEN Missing
    ELSE Duplicate

\* The Outer of a run of (inner ...) forms: the records in the order of the
\* text, or the error of the first form that has one.
RECURSIVE OuterOf(_, _)
OuterOf(fs, acc) ==
    IF fs = <<>> THEN RecordOf(<<<<"Vec", acc>>>>)
    ELSE IF InnerOf(fs[1]).err # NoError THEN InnerOf(fs[1])
    ELSE OuterOf(Tail(fs), Append(acc, InnerOf(fs[1]).value))

\* C9: a repeated(name) slot binds to the inner values of all the forms
\* (name ...) among the siblings, in the order of the text, for any number
\* of them, none included; when the element is a record, each occurrence
\* is bound from the contents of its own list only.
C9_RepeatedInOrder ==
    wpc = "done" =>
        /\ (target = RepeatedTest /\ OnlyTags({"values"})) =>
              result = RecordOf(<<<<"Vec", InnerValues(forms, "values")>>>>)
        /\ (target = Outer /\ OnlyTags({"inner"})) => result = OuterOf(forms, <<>>)
        /\ (/\ target = MixedTest
            /\ result.err = NoError) =>
              result.value[2][2] = <<"Vec", InnerValues(forms, "values")>>

\* Two different records in a row, and three values of which the first and
\* the last are the same.
C9_Witness ==
    /\ wpc = "done"
    /\ result.err = NoError
    /\ \/ target = Outer /\ forms = <<6, 5>>
       \/ target = RepeatedTest /\ forms = <<4, 3, 4>>

(***************************************************************************)
(* Floats.                                                                 *)
(***************************************************************************)
\* The text is one Float token of the class of f.
OneFloatToken(lexed, f) ==
    /\ lexed.err = NoError
    /\ Len(lexed.tokens) = 1
    /\ Kind(lexed.tokens[1].token) = "Float"
    /\ Payload(lexed.tokens[1].token)[1] = f[1]
    /\ f[1] = "inf" => Payload(lexed.tokens[1].token)[2] = f[2]

\* The text the claim says is written for f.
FloatTextForm(t, f) ==
    /\ f[1] = "nan" => t = <<"#", "n", "a", "n">>
    /\ f = FloatInf(FALSE) => t = <<"#", "+", "i", "n", "f">>
    /\ f = FloatInf(TRUE) => t = <<"#", "-", "i", "n", "f">>
    /\ f[1] = "finite" =>
          /\ Cardinality({k \in 1..Len(t) : t[k] = "."}) = 1
          /\ \A k \in 1..Len(t) : t[k] \in Digit \cup {".", "-"}
          /\ IsIntegral(f) =>
                (Len(t) >= 3 /\ SubSeq(t, Len(t) - 1, Len(t)) = <<".", "0">>)

\* C11: NaN is written #nan, the infinities #+inf and #-inf, an integral
\* finite float with a trailing .0 and any other finite float with a
\* decimal point; the reader lexes the text as one Float token of the same
\* class, never as an Int or a Symbol.
C11_FloatReadsAsFloat ==
    (/\ wpc \in {"rendered", "done"}
     /\ sink = "pretty"
     /\ arg = "Value"
     /\ Kind(input[1]) = "Float") =>
        /\ FloatTextForm(str, Payload(input[1]))
        /\ OneFloatToken(Lex(str), Payload(input[1]))

\* A negative integral float of several digits, and a fraction below one
\* tenth.
C11_Witness ==
    /\ wpc = "rendered"
    /\ sink = "pretty"
    /\ \/ input = <<ValueFloat(FloatFinite(TRUE, 12, 1))>>
       \/ input = <<ValueFloat(FloatFinite(FALSE, 7, 0 - 2))>>
    /\ OneFloatToken(Lex(str), Payload(input[1]))

(***************************************************************************)
(* String literals.                                                        *)
(***************************************************************************)
\* The grammar of the claim: the position after the closing quote of a
\* body that starts at q, 0 when t[q ..] is no body followed by a quote.
\* A body is made of characters other than quote and backslash and of the
\* escapes \\ \" \t \n \r and \u{HEX} with one or more hex digits.
RECURSIVE GrammarBodyEnd(_, _)
GrammarBodyEnd(t, q) ==
    IF q > Len(t) THEN 0
    ELSE IF t[q] = "\"" THEN q + 1
    ELSE IF t[q] # "\\" THEN GrammarBodyEnd(t, q + 1)
    ELSE IF At(t, q + 1) \in {"\\", "\"", "t", "n", "r"} THEN GrammarBodyEnd(t, q + 2)
    ELSE IF At(t, q + 1) = "u" /\ At(t, q + 2) = "{"
            /\ RunEnd(t, q + 3, HexDigit) > q + 3
            /\ At(t, RunEnd(t, q + 3, HexDigit)) = "}"
    THEN GrammarBodyEnd(t, RunEnd(t, q + 3, HexDigit) + 1)
    ELSE 0

\* The first and the last position of the literal in str.
LiteralStart == CHOOSE k \in 1..Len(str) : str[k] = "\"" /\ \A j \in 1..(k - 1) : str[j] = "("
LiteralEnd == Len(str) - (LiteralStart - 1)

StringTokens(toks) == {k \in 1..Len(toks) : Kind(toks[k].token) = "String"}

\* C12: a quoted literal whose body is made of ordinary characters and of
\* the escapes \\ \" \t \n \r and \u{HEX} is lexed as one String token that
\* spans the literal; a literal with a backslash before any other
\* character is a Syntax error.
C12_StringEscapes ==
    pc # "lex" =>
        IF GrammarBodyEnd(str, LiteralStart + 1) = LiteralEnd + 1
        THEN /\ Kind(err) # "Syntax"
             /\ \E k \in 1..Len(tokens) :
                   /\ StringTokens(tokens) = {k}
                   /\ tokens[k].span = <<LiteralStart - 1, LiteralEnd>>
        ELSE Kind(err) = "Syntax"

(***************************************************************************)
(* The stack of buffers of the output streams.                             *)
(***************************************************************************)
\* The lists to_parens is inside of: the calls list(f) whose f has not
\* returned yet.
NestingDepth == Cardinality({k \in 1..Len(work) : work[k] = EndList})

Front(s) == SubSeq(s, 1, Len(s) - 1)
IsListElement(x) == Kind(x) \in {"List", "list"}

\* During the calls the depth of the stack is the nesting depth, and the
\* stack is empty when finish() is taken.
StackDepthIsNesting ==
    /\ wpc = "write" => Len(out.stack) = NestingDepth
    /\ wpc \in {"rendered", "done"} => out.stack = <<>>

\* What one step of a stream does to the buffers.  list(f) saves the
\* enclosing buffer on top of the stack and gives f an empty one; while f
\* runs, a write appends one element to the current buffer and nothing
\* touches the saved ones; when f returns, list(f) takes the saved buffer
\* back, as it was, and appends to it one list holding what f wrote.
BufferStep ==
    IF wpc # "write" \/ work = <<>> THEN out' = out
    ELSE IF work[1] = EndList
    THEN /\ out.stack # <<>>
         /\ out'.stack = Front(out.stack)
         /\ Len(out'.current) = Len(out.stack[Len(out.stack)]) + 1
         /\ Front(out'.current) = out.stack[Len(out.stack)]
         /\ IsListElement(out'.current[Len(out'.current)])
         /\ Payload(out'.current[Len(out'.current)]) = out.current
    ELSE IF Kind(work[1][2]) = "List"
    THEN /\ out'.stack = Append(out.stack, out.current)
         /\ out'.current = <<>>
    ELSE /\ out'.stack = out.stack
         /\ Len(out'.current) = Len(out.current) + 1
         /\ Front(out'.current) = out.current
         /\ ~IsListElement(out'.current[Len(out'.current)])

\* C13: a call list(f) of ValueOutputStream or Pretty leaves the stack of
\* saved buffers as deep as it found it, leaves the elements of the
\* enclosing buffer as they were and appends exactly one element to it, a
\* list holding what f wrote in order; during f the depth of the stack is
\* the nesting depth, and the stack is empty when finish() is taken.
C13_StackOfBuffers == []StackDepthIsNesting /\ [][BufferStep]_vars

\* A list that follows an element of its enclosing list has been closed
\* while that enclosing list is still open.
C13_Witness ==
    /\ wpc = "write"
    /\ Len(out.stack) = 1
    /\ Len(out.stack[1]) = 0
    /\ Len(out.current) = 2
    /\ ~IsListElement(out.current[1])
    /\ IsListElement(out.current[2])
    /\ Payload(out.current[2]) # <<>>

(***************************************************************************)
(* The views of the reader.                                                *)
(***************************************************************************)
\* The views the consumer holds: the one it works on, the parents it kept,
\* and the child the last call returned.
Views ==
    {stream} \cup {saved[k] : k \in 1..Len(saved)}
        \cup (IF Kind(ret) = "List" THEN {Payload(ret)} ELSE {})

\* toks[lo .. hi] is balanced: no closer without an opener before it in the
\* slice, no opener left open at its end.
SliceBalanced(toks, lo, hi) ==
    /\ \A k \in lo..hi : Depth(toks, k) >= Depth(toks, lo - 1)
    /\ Depth(toks, hi) = Depth(toks, lo - 1)

ViewIsSound(toks, v) ==
    /\ 1 <= v.lo
    /\ v.lo <= v.hi + 1
    /\ v.hi <= Len(toks)
    /\ SliceBalanced(toks, v.lo, v.hi)
    /\ v.hi = Len(toks) \/ IsClose(toks, v.hi + 1)
    /\ ViewLen(v) >= 1 => ~IsClose(toks, v.lo)
    /\ \A p \in v.lo..v.hi : IsOpen(toks, p) =>
          (Skip(toks, p) >= 1 /\ p + Skip(toks, p) <= v.hi)
    /\ Kind(peek(toks, v)) # "Panic"
    /\ (peek(toks, v) = TokenTreeNone) <=> is_end(v)

\* C14: every view reachable from the root view of a balanced text by
\* peek() and next() holds a balanced slice without Comment tokens; a
\* child view holds the tokens strictly between its opener and the
\* matching closer; a view never starts at a CloseList; peek() and next()
\* index inside the slice and never panic; peek() returns None exactly
\* when is_end() is true.
C14_ViewsStayBalanced ==
    pc = "read" =>
        /\ \A k \in 1..Len(tokens) : Kind(tokens[k].token) # "Comment"
        /\ Kind(ret) # "Panic"
        /\ \A v \in Views : ViewIsSound(tokens, v)
        /\ Kind(ret) = "List" =>
              /\ Payload(ret).lo >= 2
              /\ IsOpen(tokens, Payload(ret).lo - 1)
              /\ Payload(ret).hi + 1 = MatchOf(tokens, Payload(ret).lo - 1)

\* Inside a list, with its parent kept, peek() returned a non-empty list.
C14_Witness ==
    /\ pc = "read"
    /\ Len(saved) >= 1
    /\ op = "peek"
    /\ Kind(ret) = "List"
    /\ ViewLen(Payload(ret)) >= 1
    /\ Payload(ret).lo = stream.lo + 1

====
